---- MODULE Spec2Model ----
(***************************************************************************)
(* Session/context management of python/ray/util/client/__init__.py:       *)
(* _ClientContext, the module-level registry _all_contexts with its _lock, *)
(* ManagedContext and the RayAPIStub facade, run by several threads.       *)
(*                                                                         *)
(* A thread's facade call is a sequence of steps; a step ends where the    *)
(* call blocks (a transport call, the registry lock) so that the steps of  *)
(* different threads interleave as the interpreter lets them.              *)
(***************************************************************************)
EXTENDS Integers, Sequences, FiniteSets, TLC

\* ------------------------------------------------------------------ bounds
\* Worker objects (transports) opened in one run.
MaxWorkers == 2
\* _ClientContext objects created by set_context(None) in one run.
MaxFresh == 1
\* Calls the threads start in one run; a with statement is counted with the
\* context_from_client_id call that made its guard.
MaxCalls == 4

\* ------------------------------------------------------------ the universe
Threads == {1, 2}
\* The thread that imported the module and so ran RayAPIStub.__init__.
MainThread == 1
Workers == 1..MaxWorkers
\* Python's None, for a field that holds a Worker, a client id or a thread.
None == 0
\* threading.local() has no attribute "handler" on this thread yet.
Unset == -1
default_context == 0
Contexts == 0..MaxFresh
\* RayAPIStub._inside_client_test, False unless a test harness sets it.
inside_client_test == FALSE
CURRENT_PROTOCOL_VERSION == "2021-09-02"
\* sys.version_info[0..2] of the client interpreter.
version_info == <<3, 8, 10>>

VARIABLES
    \* _ClientContext fields, one slot per context object
    client_worker,          \* self.client_worker: a Worker or None
    client_id,              \* self._client_id
    conn_info,              \* self._conn_info: None for {}, else the worker whose peer sent it
    server,                 \* self._server is not None
    connected_with_init,    \* self._connected_with_init
    \* module globals
    all_contexts,           \* _all_contexts: insertion-ordered dict, <<id, context>> pairs
    lock,                   \* _lock: the thread holding it, or None
    client_mode,            \* the flag behind _explicitly_{enable,disable}_client_mode
    ncontexts,              \* number of _ClientContext objects made by set_context(None)
    ncalls,                 \* calls started so far, counted against MaxCalls
    \* the transport collaborator
    nworkers,               \* Worker objects constructed so far
    closed,                 \* Workers whose close() has run
    \* per thread
    handler,                \* self._cxt.handler (thread local)
    pc,                     \* position inside the facade call in progress
    call,                   \* the facade call in progress
    cont,                   \* the ManagedContext method the facade call was made from
    conn,                   \* local conn / ret of RayAPIStub.connect / init
    guard,                  \* the thread's ManagedContext: _context_to_restore, in a with block
    \* history, read by the properties only
    savedMode,              \* client_mode when the connect/init in progress was called
    attemptWorker,          \* the Worker the connect attempt in progress constructed
    initWorkers,            \* Workers constructed by a connect made from init()
    entryActive,            \* the thread's active context when it entered its guard
    guardTarget,            \* the context and the client id the thread's guard was created for
    \* what the last call was given and gave back, read by the properties only
    peer,                   \* the conn_info and ignore_version of the last handshake
    ambient                 \* the key and the outcome of the last ambient call

ctxVars == <<client_worker, client_id, conn_info, server, connected_with_init>>
regVars == <<all_contexts, lock, client_mode>>
worldVars == <<ncontexts, nworkers, closed>>
globalVars == <<regVars, worldVars, ncalls>>
threadVars == <<handler, pc, call, cont, conn, guard>>
historyVars == <<savedMode, attemptWorker, initWorkers, entryActive, guardTarget>>
callVars == <<peer, ambient>>
vars == <<ctxVars, globalVars, threadVars, historyVars, callVars>>

\* ------------------------------------------------------- version handshake
Digit(d) ==
    CASE d = 0 -> "0" [] d = 1 -> "1" [] d = 2 -> "2" [] d = 3 -> "3" [] d = 4 -> "4"
      [] d = 5 -> "5" [] d = 6 -> "6" [] d = 7 -> "7" [] d = 8 -> "8" [] d = 9 -> "9"

RECURSIVE IntToChars(_)
\* str(n) as a sequence of characters.
IntToChars(n) ==
    IF n < 10 THEN <<Digit(n)>> ELSE IntToChars(n \div 10) \o <<Digit(n % 10)>>

\* f"{sys.version_info[0]}.{sys.version_info[1]}"
local_major_minor == IntToChars(version_info[1]) \o <<".">> \o IntToChars(version_info[2])

\* str.startswith
StartsWith(s, prefix) ==
    /\ Len(s) >= Len(prefix)
    /\ SubSeq(s, 1, Len(prefix)) = prefix

\* python_version values a peer may report.
PeerPythonVersions ==
    { <<"3", ".", "8", ".", "1", "0">>,
      <<"3", ".", "8">>,
      <<"3", ".", "9", ".", "0">>,
      <<"3", ".", "8", "0", ".", "1">>,
      <<"3">> }
\* protocol_version values a peer may report.
PeerProtocolVersions == {"2021-09-02", "2021-08-26"}

\* _check_versions raises RuntimeError for the Python version.
PythonVersionRaises(py, ignore_version, env_override) ==
    /\ ~StartsWith(py, local_major_minor)
    /\ ~(ignore_version \/ env_override)

\* _check_versions raises RuntimeError for the protocol version.
ProtocolVersionRaises(proto, ignore_version, env_override) ==
    /\ CURRENT_PROTOCOL_VERSION # proto
    /\ ~(ignore_version \/ env_override)

\* _check_versions with the override read by the Python check only: a
\* protocol mismatch always raises.
check_versions_strict_protocol(py, proto, ignore_version, env_override) ==
    /\ ~PythonVersionRaises(py, ignore_version, env_override)
    /\ CURRENT_PROTOCOL_VERSION = proto

\* _check_versions returns without raising.
check_versions(py, proto, ignore_version, env_override) ==
    /\ ~PythonVersionRaises(py, ignore_version, env_override)
    /\ ~ProtocolVersionRaises(proto, ignore_version, env_override)

\* ------------------------------------------------------------ the registry
\* _all_contexts.keys() and .values()
RegKeys(reg) == {reg[i][1] : i \in DOMAIN reg}
RegValues(reg) == {reg[i][2] : i \in DOMAIN reg}

\* _all_contexts.get(id): the context, or Unset for a missing key
RegGet(reg, id) ==
    IF id \in RegKeys(reg)
    THEN (CHOOSE p \in {reg[i] : i \in DOMAIN reg} : p[1] = id)[2]
    ELSE Unset

\* _all_contexts[id] = cxt: a present key keeps its place, a new one goes last
RegPut(reg, id, cxt) ==
    IF id \in RegKeys(reg)
    THEN [i \in DOMAIN reg |-> IF reg[i][1] = id THEN <<id, cxt>> ELSE reg[i]]
    ELSE Append(reg, <<id, cxt>>)

\* _all_contexts.pop(id, None)
RegPop(reg, id) == SelectSeq(reg, LAMBDA p : p[1] # id)

\* num_connected_contexts()
num_connected_contexts == Len(all_contexts)

\* ------------------------------------------------------ thread-local state
\* get_context with the slot read as one attribute shared by the threads: a
\* thread without a slot of its own sees the main thread's.
get_context_shared(h, t) == [h EXCEPT ![t] = IF h[t] = Unset THEN h[MainThread] ELSE h[t]]

\* self._cxt after get_context() ran on thread t.
get_context(h, t) == [h EXCEPT ![t] = IF h[t] = Unset THEN default_context ELSE h[t]]

\* The context get_context() returns on thread t.
Active(t) == get_context(handler, t)[t]

\* self._cxt after self._cxt.handler = cxt ran on thread t.
StoreHandler(h, t, cxt) == [h EXCEPT ![t] = cxt]

\* is_default()
is_default(t) == Active(t) = default_context

\* _ClientContext.is_connected(): a Worker that has not been closed reports connected.
is_connected(c) ==
    IF client_worker[c] = None THEN FALSE ELSE client_worker[c] \notin closed

\* Context objects that exist: the default one and those set_context(None) made.
Existing == 0..ncontexts

\* ------------------------------------------------- _ClientContext.disconnect
\* self.client_worker of every context after disconnect() ran on those in S.
WorkerAfterDisconnect(S) ==
    [c \in Contexts |-> IF c \in S THEN None ELSE client_worker[c]]

\* disconnect() that drops the handle without calling close() on it.
ClosedAfterDrop(S) == closed

\* The closed Workers after disconnect() ran on the contexts in S.
ClosedAfterDisconnect(S) ==
    closed \cup {client_worker[c] : c \in {d \in S : client_worker[d] # None}}

\* No handshake has run yet; no ambient call has been made yet.
NoPeer == [py |-> <<>>, proto |-> "", ignore_version |-> FALSE, env_override |-> FALSE]
NoCall == [key |-> "", result |-> "none"]

\* ---------------------------------------------------------------- Init
Init ==
    /\ client_worker = [c \in Contexts |-> None]
    /\ client_id = [c \in Contexts |-> None]
    /\ conn_info = [c \in Contexts |-> None]
    /\ server = [c \in Contexts |-> FALSE]
    /\ connected_with_init = [c \in Contexts |-> FALSE]
    /\ all_contexts = <<>>
    /\ lock = None
    /\ client_mode = FALSE
    /\ ncontexts = 0
    /\ ncalls = 0
    /\ nworkers = 0
    /\ closed = {}
    /\ handler = [t \in Threads |-> IF t = MainThread THEN default_context ELSE Unset]
    /\ pc = [t \in Threads |-> "idle"]
    /\ call = [t \in Threads |-> "none"]
    /\ cont = [t \in Threads |-> "none"]
    /\ conn = [t \in Threads |-> None]
    /\ guard = [t \in Threads |-> [has |-> FALSE, restore |-> default_context, entered |-> FALSE]]
    /\ savedMode = [t \in Threads |-> FALSE]
    /\ attemptWorker = [t \in Threads |-> None]
    /\ initWorkers = {}
    /\ entryActive = [t \in Threads |-> default_context]
    /\ guardTarget = [t \in Threads |-> [cxt |-> default_context, id |-> None]]
    /\ peer = NoPeer
    /\ ambient = NoCall

\* ------------------------------------------------------ steps of a thread
\* Thread t moves to position p of call k; v is the local conn/ret.
Goto(t, p, k, v) ==
    /\ pc' = [pc EXCEPT ![t] = p]
    /\ call' = [call EXCEPT ![t] = k]
    /\ conn' = [conn EXCEPT ![t] = v]

\* A call raises: the exception unwinds it and the thread's caller goes on.
Raise(t) == Goto(t, "idle", "none", None)

\* A thread at rest starts a call.
StartCall(t) ==
    /\ pc[t] = "idle"
    /\ ncalls < MaxCalls
    /\ ncalls' = ncalls + 1

\* The history of the connect attempt of thread t is dropped when the attempt ends.
ForgetAttempt(t) ==
    /\ savedMode' = [savedMode EXCEPT ![t] = FALSE]
    /\ attemptWorker' = [attemptWorker EXCEPT ![t] = None]

\* RayAPIStub.get_context(), called on its own: the first call on a thread
\* stores the default context in the thread-local slot.
GetContext(t) ==
    /\ StartCall(t)
    /\ handler' = get_context(handler, t)
    /\ UNCHANGED <<ctxVars, regVars, worldVars, pc, call, cont, conn, guard, historyVars>>
    /\ UNCHANGED callVars

\* RayAPIStub.set_context(cxt): cxt an existing context object, or None for
\* a new _ClientContext().
SetContext(t) ==
    /\ StartCall(t)
    /\ \/ \E cxt \in Existing :
            /\ handler' = StoreHandler(get_context(handler, t), t, cxt)
            /\ UNCHANGED ncontexts
       \/ /\ ncontexts < MaxFresh
          /\ ncontexts' = ncontexts + 1
          /\ handler' = StoreHandler(get_context(handler, t), t, ncontexts + 1)
    /\ UNCHANGED <<ctxVars, regVars, nworkers, closed>>
    /\ UNCHANGED <<pc, call, cont, conn, guard, historyVars>>
    /\ UNCHANGED callVars

\* The flag after the "if not self._inside_client_test" block of connect.
EnableClientMode(flag) == IF inside_client_test THEN flag ELSE TRUE

\* RayAPIStub.connect up to the Worker constructor: get_context(), then
\* _ClientContext.connect's already-connected check and client-mode switch.
FacadeConnect(t) ==
    /\ StartCall(t)
    /\ handler' = get_context(handler, t)
    /\ LET c == Active(t) IN
         IF client_worker[c] # None
         THEN /\ IF connected_with_init[c]
                 THEN Goto(t, "register", "connect", None)     \* bare return
                 ELSE Raise(t)                                 \* already connected
              /\ UNCHANGED <<client_mode, savedMode>>
         ELSE /\ client_mode' = EnableClientMode(client_mode)
              /\ savedMode' = [savedMode EXCEPT ![t] = client_mode]
              /\ Goto(t, "c_open", "connect", None)
    /\ UNCHANGED <<ctxVars, all_contexts, lock, worldVars>>
    /\ UNCHANGED <<cont, guard, attemptWorker, initWorkers, entryActive, guardTarget>>
    /\ UNCHANGED callVars

\* The Worker constructor inside connect's try block: it returns a Worker,
\* stored in self.client_worker with its _client_id, or raises, and then the
\* except block runs self.disconnect() and re-raises.
ConnectOpen(t) ==
    /\ pc[t] = "c_open"
    /\ LET c == Active(t)
           w == nworkers + 1
       IN \/ /\ nworkers < MaxWorkers
             /\ nworkers' = w
             /\ client_worker' = [client_worker EXCEPT ![c] = w]
             /\ client_id' = [client_id EXCEPT ![c] = w]
             /\ attemptWorker' = [attemptWorker EXCEPT ![t] = w]
             /\ initWorkers' = IF call[t] = "init" THEN initWorkers \cup {w} ELSE initWorkers
             /\ Goto(t, "c_handshake", call[t], None)
             /\ UNCHANGED <<closed, savedMode>>
          \/ /\ client_worker' = WorkerAfterDisconnect({c})
             /\ closed' = ClosedAfterDisconnect({c})
             /\ Raise(t)
             /\ ForgetAttempt(t)
             /\ UNCHANGED <<client_id, nworkers, initWorkers>>
    /\ UNCHANGED <<conn_info, server, connected_with_init>>
    /\ UNCHANGED <<regVars, ncontexts, ncalls>>
    /\ UNCHANGED <<handler, cont, guard, entryActive, guardTarget>>
    /\ UNCHANGED callVars

\* The steps of connect's try block after the Worker constructor.
HandshakeSteps == {"none", "server_init", "connection_info", "register_serializers"}

\* How the rest of connect's try block ends when step failing raises (or
\* none does) and the peer reports py and proto: "no_info" for an exception
\* before self._conn_info is assigned, "info" for one after it, "ok" for the
\* return. hasWorker is false when self.client_worker is None (another
\* thread's disconnect of this context object), and then _server_init raises
\* AttributeError.
HandshakeResult(hasWorker, failing, py, proto, ignore_version, env_override) ==
    IF ~hasWorker \/ failing \in {"server_init", "connection_info"} THEN "no_info"
    ELSE IF ~check_versions(py, proto, ignore_version, env_override) THEN "info"
    ELSE IF failing = "register_serializers" THEN "info"
    ELSE "ok"

\* The results the rest of the try block can have.
HandshakeResults(hasWorker) ==
    { HandshakeResult(hasWorker, failing, py, proto, ignore_version, env_override) :
        failing \in HandshakeSteps, py \in PeerPythonVersions,
        proto \in PeerProtocolVersions, ignore_version \in BOOLEAN,
        env_override \in BOOLEAN }

\* The rest of connect's try block ending with result r.
HandshakeEnds(t, r) ==
    /\ LET c == Active(t)
           w == client_worker[c]
       IN /\ conn_info' = IF r = "no_info" THEN conn_info ELSE [conn_info EXCEPT ![c] = w]
          /\ IF r = "ok"
             THEN /\ connected_with_init' =
                       IF call[t] = "init"
                       THEN [connected_with_init EXCEPT ![c] = TRUE]
                       ELSE connected_with_init
                  /\ Goto(t, "register", call[t], IF call[t] = "init" THEN None ELSE w)
                  /\ UNCHANGED <<client_worker, closed>>
             ELSE /\ client_worker' = WorkerAfterDisconnect({c})
                  /\ closed' = ClosedAfterDisconnect({c})
                  /\ Raise(t)
                  /\ UNCHANGED connected_with_init
    /\ ForgetAttempt(t)
    /\ UNCHANGED <<client_id, server>>
    /\ UNCHANGED <<regVars, ncontexts, nworkers, ncalls>>
    /\ UNCHANGED <<handler, cont, guard, initWorkers, entryActive, guardTarget>>

\* The rest of connect's try block: _server_init, connection_info,
\* _check_versions, _register_serializers, and the return of _conn_info; an
\* exception runs self.disconnect() and is re-raised. After a connect made
\* from init(), _connected_with_init is set.
ConnectHandshake(t) ==
    /\ pc[t] = "c_handshake"
    /\ \E r \in HandshakeResults(client_worker[Active(t)] # None) : HandshakeEnds(t, r)
    /\ UNCHANGED callVars

\* The "with _lock" block that ends RayAPIStub.connect and RayAPIStub.init:
\* _all_contexts[self._cxt.handler.id] = self._cxt.handler, then the return.
Register(t) ==
    /\ pc[t] = "register"
    /\ lock = None
    /\ all_contexts' = RegPut(all_contexts, client_id[Active(t)], Active(t))
    /\ Goto(t, "idle", "none", None)
    /\ UNCHANGED <<ctxVars, lock, client_mode, worldVars, ncalls>>
    /\ UNCHANGED <<handler, cont, guard, historyVars>>
    /\ UNCHANGED callVars

\* The teardown without the broadcast: always the thread's own context only.
DisconnectTargetsOwn(t) == {Active(t)}

\* The teardown with the branch on the default context lost: every
\* registered context, whatever context the thread is on.
DisconnectTargetsAll(t) == RegValues(all_contexts) \cup {Active(t)}

\* The contexts a facade disconnect()/shutdown() of thread t tears down:
\* every registered context when the thread is on the default context,
\* else the thread's own.
DisconnectTargets(t) ==
    IF is_default(t) THEN RegValues(all_contexts) ELSE {Active(t)}

\* self._server of every context after shutdown() ran on those in S.
ServerAfterShutdown(S) ==
    [c \in Contexts |-> IF c \in S THEN FALSE ELSE server[c]]

\* _all_contexts after the if/else of disconnect()/shutdown().
RegistryAfterTeardown(t) == IF is_default(t) THEN <<>> ELSE all_contexts

\* ManagedContext._swap_context on thread t: set_context(_context_to_restore),
\* the result kept as the new _context_to_restore.
SwappedHandler(t) == StoreHandler(get_context(handler, t), t, guard[t].restore)
SwappedGuard(t, inBlock) ==
    [guard EXCEPT ![t] = [has |-> TRUE, restore |-> Active(t), entered |-> inBlock]]

\* RayAPIStub.disconnect / shutdown (k names which): "with _lock" is entered.
FacadeDisconnect(t, k) ==
    /\ StartCall(t)
    /\ lock = None
    /\ lock' = t
    /\ handler' = get_context(handler, t)
    /\ Goto(t, "d_close", k, None)
    /\ UNCHANGED <<ctxVars, all_contexts, client_mode, worldVars>>
    /\ UNCHANGED <<cont, guard, historyVars>>
    /\ UNCHANGED callVars

\* The if/else under the lock: cxt.disconnect() (or cxt.shutdown(), which also
\* stops the embedded server) on every target, and _all_contexts = {} on the
\* default context.
DisconnectClose(t) ==
    /\ pc[t] = "d_close"
    /\ client_worker' = WorkerAfterDisconnect(DisconnectTargets(t))
    /\ closed' = ClosedAfterDisconnect(DisconnectTargets(t))
    /\ server' = IF call[t] = "shutdown"
                 THEN ServerAfterShutdown(DisconnectTargets(t))
                 ELSE server
    /\ all_contexts' = RegistryAfterTeardown(t)
    /\ Goto(t, "d_finish", call[t], None)
    /\ UNCHANGED <<client_id, conn_info, connected_with_init>>
    /\ UNCHANGED <<lock, client_mode, ncontexts, nworkers, ncalls>>
    /\ UNCHANGED <<handler, cont, guard, historyVars>>
    /\ UNCHANGED callVars

\* The flag after "if len(_all_contexts) == 0: _explicitly_disable_client_mode()".
DisableClientMode(reg, flag) == IF Len(reg) = 0 THEN FALSE ELSE flag

\* The end of the "with _lock" block: pop(self.get_context().id, None), the
\* client-mode switch, the release of the lock. A call made from
\* ManagedContext.__exit__ or ManagedContext.disconnect is followed by that
\* method's closing _swap_context().
DisconnectFinish(t) ==
    /\ pc[t] = "d_finish"
    /\ all_contexts' = RegPop(all_contexts, client_id[Active(t)])
    /\ client_mode' = DisableClientMode(all_contexts', client_mode)
    /\ lock' = None
    /\ Goto(t, "idle", "none", None)
    /\ cont' = [cont EXCEPT ![t] = "none"]
    /\ IF cont[t] = "none"
       THEN UNCHANGED <<handler, guard>>
       ELSE /\ handler' = SwappedHandler(t)
            /\ guard' = SwappedGuard(t, guard[t].entered /\ cont[t] # "exit")
    /\ UNCHANGED <<ctxVars, worldVars, ncalls, historyVars>>
    /\ UNCHANGED callVars

\* RayAPIStub.init up to the Worker constructor: get_context(), then
\* _ClientContext.init's double-init check, init_and_serve and the head of
\* connect("localhost:50051").
FacadeInit(t) ==
    /\ StartCall(t)
    /\ handler' = get_context(handler, t)
    /\ LET c == Active(t) IN
         IF server[c]
         THEN /\ Raise(t)                                      \* two instances
              /\ UNCHANGED <<server, client_mode, savedMode>>
         ELSE /\ server' = [server EXCEPT ![c] = TRUE]
              /\ IF client_worker[c] # None
                 THEN /\ IF connected_with_init[c]
                         THEN Goto(t, "register", "init", None)
                         ELSE Raise(t)                         \* already connected
                      /\ UNCHANGED <<client_mode, savedMode>>
                 ELSE /\ client_mode' = EnableClientMode(client_mode)
                      /\ savedMode' = [savedMode EXCEPT ![t] = client_mode]
                      /\ Goto(t, "c_open", "init", None)
    /\ UNCHANGED <<client_worker, client_id, conn_info, connected_with_init>>
    /\ UNCHANGED <<all_contexts, lock, worldVars>>
    /\ UNCHANGED <<cont, guard, attemptWorker, initWorkers, entryActive, guardTarget>>
    /\ UNCHANGED callVars

\* context_from_client_id(id): the lookup under the lock; a missing id raises
\* ValueError, and ManagedContext.__init__ raises KeyError on an empty
\* _conn_info.
ContextFromClientId(t, id) ==
    /\ StartCall(t)
    /\ lock = None
    /\ ~guard[t].entered
    /\ LET ctx == RegGet(all_contexts, id) IN
         IF ctx = Unset \/ conn_info[ctx] = None
         THEN /\ Raise(t)
              /\ UNCHANGED <<guard, guardTarget>>
         ELSE /\ guard' = [guard EXCEPT ![t] = [has |-> TRUE, restore |-> ctx, entered |-> FALSE]]
              /\ guardTarget' = [guardTarget EXCEPT ![t] = [cxt |-> ctx, id |-> id]]
              /\ UNCHANGED <<pc, call, conn>>
    /\ UNCHANGED <<ctxVars, regVars, worldVars, handler, cont>>
    /\ UNCHANGED <<savedMode, attemptWorker, initWorkers, entryActive>>
    /\ UNCHANGED callVars

\* ManagedContext.__enter__: the with statement starts. The statement is
\* counted with the context_from_client_id call that made its guard.
GuardEnter(t) ==
    /\ pc[t] = "idle"
    /\ guard[t].has
    /\ ~guard[t].entered
    /\ handler' = SwappedHandler(t)
    /\ guard' = SwappedGuard(t, TRUE)
    /\ entryActive' = [entryActive EXCEPT ![t] = Active(t)]
    /\ UNCHANGED <<ctxVars, regVars, worldVars, ncalls, pc, call, cont, conn>>
    /\ UNCHANGED <<savedMode, attemptWorker, initWorkers, guardTarget>>
    /\ UNCHANGED callVars

\* _disconnect_with_context(force_disconnect) calls disconnect() on context c.
WantsDisconnect(c, force_disconnect) ==
    is_connected(c) /\ (c = default_context \/ force_disconnect)

\* _disconnect_with_context reaches ray.worker.global_worker on context c:
\* not connected, yet holding a Worker, which has no such attribute.
DisconnectWithContextRaises(c) ==
    ~is_connected(c) /\ client_worker[c] # None

\* ManagedContext.__exit__, the end of the with statement:
\* _disconnect_with_context(False), then _swap_context(). The disconnect, when made, is the facade's and waits for
\* the lock.
GuardExit(t) ==
    /\ pc[t] = "idle"
    /\ guard[t].entered
    /\ IF WantsDisconnect(Active(t), FALSE)
       THEN /\ lock = None
            /\ lock' = t
            /\ Goto(t, "d_close", "disconnect", None)
            /\ cont' = [cont EXCEPT ![t] = "exit"]
            /\ UNCHANGED <<handler, guard>>
       ELSE IF DisconnectWithContextRaises(Active(t))
       THEN /\ Raise(t)
            /\ guard' = [guard EXCEPT ![t].entered = FALSE]
            /\ UNCHANGED <<lock, cont, handler>>
       ELSE /\ handler' = SwappedHandler(t)
            /\ guard' = SwappedGuard(t, FALSE)
            /\ UNCHANGED <<lock, cont, pc, call, conn>>
    /\ UNCHANGED <<ctxVars, all_contexts, client_mode, worldVars, ncalls, historyVars>>
    /\ UNCHANGED callVars

\* ManagedContext.disconnect: _swap_context(), _disconnect_with_context(True),
\* _swap_context().
GuardDisconnect(t) ==
    /\ StartCall(t)
    /\ guard[t].has
    /\ IF WantsDisconnect(guard[t].restore, TRUE)
       THEN /\ lock = None
            /\ lock' = t
            /\ handler' = SwappedHandler(t)
            /\ guard' = SwappedGuard(t, guard[t].entered)
            /\ Goto(t, "d_close", "disconnect", None)
            /\ cont' = [cont EXCEPT ![t] = "gdisc"]
       ELSE IF DisconnectWithContextRaises(guard[t].restore)
       THEN /\ handler' = SwappedHandler(t)
            /\ guard' = SwappedGuard(t, guard[t].entered)
            /\ Raise(t)
            /\ UNCHANGED <<lock, cont>>
       ELSE /\ handler' = get_context(handler, t)       \* swapped there and back
            /\ UNCHANGED <<guard, lock, cont, pc, call, conn>>
    /\ UNCHANGED <<ctxVars, all_contexts, client_mode, worldVars, historyVars>>
    /\ UNCHANGED callVars

\* ---------------------------------------------------------- specification
Next ==
    \E t \in Threads :
        \/ GetContext(t)
        \/ SetContext(t)
        \/ FacadeConnect(t)
        \/ ConnectOpen(t)
        \/ ConnectHandshake(t)
        \/ Register(t)
        \/ FacadeInit(t)
        \/ \E k \in {"disconnect", "shutdown"} : FacadeDisconnect(t, k)
        \/ DisconnectClose(t)
        \/ DisconnectFinish(t)
        \/ \E id \in Workers : ContextFromClientId(t, id)
        \/ GuardEnter(t)
        \/ GuardExit(t)
        \/ GuardDisconnect(t)

Spec == Init /\ [][Next]_vars

\* ------------------------------------------------- a transport whose close() raises
\* _all_contexts.values() in iteration order.
RegValueSeq(reg) == [i \in DOMAIN reg |-> reg[i][2]]

\* The contexts the teardown loop of thread t visits, in order.
TeardownOrder(t) ==
    IF is_default(t) THEN RegValueSeq(all_contexts) ELSE <<Active(t)>>

\* The contexts visited before position k.
VisitedBefore(order, k) == {order[j] : j \in 1..(k - 1)}

\* connect's except block when client_worker.close() raises inside
\* self.disconnect(): "self.client_worker = None" is not reached and the
\* exception of close() reaches the caller.
CloseRaisesInConnect(t) ==
    /\ pc[t] \in {"c_open", "c_handshake"}
    /\ client_worker[Active(t)] # None
    /\ \E r \in HandshakeResults(TRUE) \ {"ok"} :
         conn_info' = IF pc[t] = "c_handshake" /\ r = "info"
                      THEN [conn_info EXCEPT ![Active(t)] = client_worker[Active(t)]]
                      ELSE conn_info
    /\ Raise(t)
    /\ ForgetAttempt(t)
    /\ UNCHANGED <<client_worker, client_id, server, connected_with_init>>
    /\ UNCHANGED <<globalVars, handler, cont, guard, initWorkers, entryActive, guardTarget>>
    /\ UNCHANGED callVars

\* The if/else of disconnect()/shutdown() when the close() of the context at
\* position k of the loop raises: the contexts before it are torn down, the
\* exception leaves the "with _lock" block, which releases the lock, and
\* nothing after the failing call runs: not "_all_contexts = {}", not the
\* pop, not the client-mode switch, not the closing _swap_context() of the
\* ManagedContext method the call was made from.
CloseRaisesInDisconnect(t) ==
    /\ pc[t] = "d_close"
    /\ \E k \in DOMAIN TeardownOrder(t) :
         LET order == TeardownOrder(t)
             before == VisitedBefore(order, k)
         IN /\ order[k] \notin before
            /\ client_worker[order[k]] # None
            /\ client_worker' = WorkerAfterDisconnect(before)
            /\ closed' = ClosedAfterDisconnect(before)
            /\ server' = IF call[t] = "shutdown" THEN ServerAfterShutdown(before) ELSE server
    /\ lock' = None
    /\ Raise(t)
    /\ cont' = [cont EXCEPT ![t] = "none"]
    /\ guard' = IF cont[t] = "exit" THEN [guard EXCEPT ![t].entered = FALSE] ELSE guard
    /\ UNCHANGED <<client_id, conn_info, connected_with_init>>
    /\ UNCHANGED <<all_contexts, client_mode, ncontexts, nworkers, ncalls>>
    /\ UNCHANGED <<handler, historyVars>>
    /\ UNCHANGED callVars

NextCloseFails ==
    \/ Next
    \/ \E t \in Threads :
        \/ CloseRaisesInConnect(t)
        \/ CloseRaisesInDisconnect(t)

\* The program with a transport whose close() may raise.
SpecCloseFails == Init /\ [][NextCloseFails]_vars

\* ------------------------------------------------------------------ claims
\* The steps of thread t that run set_context on it: set_context itself and
\* the _swap_context of a ManagedContext method.
CallsSetContext(t) ==
    \/ SetContext(t)
    \/ GuardEnter(t)
    \/ GuardExit(t)
    \/ GuardDisconnect(t)
    \/ DisconnectFinish(t) /\ cont[t] # "none"

\* C1: every thread starts on the default context, and the context
\* get_context returns on a thread changes only in a step in which that same
\* thread calls set_context: no call of another thread, set_context included,
\* changes it, and a thread that never called set_context is on the default.
C1_ThreadLocalContext ==
    /\ \A t \in Threads : Active(t) = default_context
    /\ [][\A b \in Threads : Active(b)' # Active(b) => CallsSetContext(b)]_vars

\* C1 witness: thread 1 has set a context of its own while thread 2, which
\* never touched its slot, still gets the default context.
C1_Witness ==
    /\ handler[1] # Unset
    /\ Active(1) # default_context
    /\ handler[2] = Unset
    /\ Active(2) = default_context

\* Thread t's connect() raises in this step, from inside the try block: at
\* the Worker constructor or at one of the handshake steps after it.
ConnectFailsInTry(t) ==
    /\ pc[t] \in {"c_open", "c_handshake"}
    /\ call[t] = "connect"
    /\ pc'[t] = "idle"

\* C2: when connect() fails between opening the transport and registering
\* the serializers, the context is left without a transport handle, the
\* handle the attempt opened has been closed, and the registry is as it was.
C2_FailedConnectRollsBack ==
    [][\A t \in Threads :
          ConnectFailsInTry(t) =>
              /\ client_worker'[Active(t)] = None
              /\ attemptWorker[t] # None => attemptWorker[t] \in closed'
              /\ all_contexts' = all_contexts]_vars

\* Thread t's connect() raises in this step at the already-connected check.
ConnectFailsAtCheck(t) ==
    /\ FacadeConnect(t)
    /\ pc'[t] = "idle"

\* C3: a connect() that fails leaves the process as it was before the call:
\* the client-mode flag has the value it had when the call was made, the
\* registry is unchanged and the context holds no transport handle.
C3_FailedConnectLeavesProcessAsBefore ==
    [][\A t \in Threads :
          /\ ConnectFailsInTry(t) =>
                /\ client_mode' = savedMode[t]
                /\ all_contexts' = all_contexts
                /\ client_worker'[Active(t)] = None
          /\ ConnectFailsAtCheck(t) =>
                /\ client_mode' = client_mode
                /\ all_contexts' = all_contexts]_vars

\* The contexts that hold a live transport.
Connected == {c \in Contexts : is_connected(c)}

\* C4: a successful connect from a context that has no registry entry raises
\* num_connected_contexts() by one, so N of them from N contexts give N; a
\* disconnect()/shutdown() on a thread whose active context is the default
\* one leaves every registered context without a transport handle, its
\* handle closed, and returns with the registry empty and the client-mode
\* flag cleared, any handle then held being that of a connect still in
\* progress on another thread.
C4_DefaultTeardownDrainsRegistry ==
    [][\A t \in Threads :
          /\ (Register(t) /\ Active(t) \notin RegValues(all_contexts)) =>
                num_connected_contexts' = num_connected_contexts + 1
          /\ (DisconnectClose(t) /\ is_default(t)) =>
                \A c \in RegValues(all_contexts) :
                    /\ client_worker'[c] = None
                    /\ client_worker[c] # None => client_worker[c] \in closed'
          /\ (DisconnectFinish(t) /\ is_default(t)) =>
                /\ all_contexts' = <<>>
                /\ num_connected_contexts' = 0
                /\ client_mode' = FALSE
                /\ \A c \in Contexts :
                      client_worker'[c] # None =>
                          \E u \in Threads \ {t} :
                              /\ pc[u] \in {"c_handshake", "register"}
                              /\ Active(u) = c]_vars

\* C4 witness: two contexts are registered and connected, and a thread on
\* the default context holds the lock at the teardown loop.
C4_Witness ==
    \E t \in Threads :
        /\ pc[t] = "d_close"
        /\ is_default(t)
        /\ num_connected_contexts = 2
        /\ Cardinality(RegValues(all_contexts)) = 2
        /\ RegValues(all_contexts) \subseteq Connected

\* C5: a disconnect()/shutdown() on a thread whose active context is not the
\* default one closes at most that context's transport and stops at most
\* its server, and removes at most one registry entry, that context's: every
\* other context keeps its handle, its server and its entry.
C5_OwnTeardownTouchesOnlyOwnContext ==
    [][\A t \in Threads :
          /\ (DisconnectClose(t) /\ ~is_default(t)) =>
                /\ \A c \in Contexts \ {Active(t)} :
                      /\ client_worker'[c] = client_worker[c]
                      /\ server'[c] = server[c]
                /\ closed' \subseteq closed \cup {client_worker[Active(t)]}
                /\ all_contexts' = all_contexts
          /\ (DisconnectFinish(t) /\ ~is_default(t)) =>
                /\ all_contexts' = SelectSeq(all_contexts, LAMBDA p : p \in {all_contexts'[i] : i \in DOMAIN all_contexts'})
                /\ Len(all_contexts') >= Len(all_contexts) - 1
                /\ \A i \in DOMAIN all_contexts :
                      all_contexts[i][2] # Active(t) =>
                          \E j \in DOMAIN all_contexts' : all_contexts'[j] = all_contexts[i]]_vars

\* C5 witness: two contexts are registered and connected, and a thread on
\* the one that is not the default context holds the lock at the teardown.
C5_Witness ==
    \E t \in Threads :
        /\ pc[t] = "d_close"
        /\ ~is_default(t)
        /\ Active(t) \in RegValues(all_contexts)
        /\ default_context \in RegValues(all_contexts)
        /\ RegValues(all_contexts) \subseteq Connected

\* Thread t leaves its with block in this step: __exit__ returns or raises.
GuardBlockEnds(t) ==
    /\ guard[t].entered
    /\ ~guard'[t].entered

\* C6: when a thread leaves the with block of a guard, by __exit__ returning
\* or by the disconnect step of __exit__ raising, its active context is the
\* one that was active when it entered the block, whatever it called inside.
C6_GuardRestoresActiveContext ==
    [][\A t \in Threads : GuardBlockEnds(t) => Active(t)' = entryActive[t]]_vars

\* Thread t's facade connect() returns in this step.
ConnectReturns(t) ==
    /\ Register(t)
    /\ call[t] = "connect"

\* Thread t's facade disconnect() returns in this step.
DisconnectReturns(t) ==
    /\ DisconnectFinish(t)
    /\ call[t] = "disconnect"

\* C7: when a thread's facade connect() returns, is_connected() is true for
\* the context the thread is on, and when its facade disconnect() returns,
\* is_connected() is false for the context the thread is on, whatever the
\* other threads do meanwhile.
C7_ConnectedAfterConnectNotAfterDisconnect ==
    [][\A t \in Threads : \A c \in Contexts :
          c = Active(t) =>
              /\ ConnectReturns(t) => is_connected(c)'
              /\ DisconnectReturns(t) => ~is_connected(c)']_vars

\* Only thread t has made calls so far.
OnlyThread(t) ==
    \A u \in Threads \ {t} :
        /\ handler[u] = Unset
        /\ pc[u] = "idle"
        /\ ~guard[u].has

\* C8, in a program whose calls are all made by one thread: connect() on a
\* context that holds a transport handle opened by connect(), not by
\* init(), raises and changes nothing.
C8_SecondConnectRaises ==
    [][\A t \in Threads :
          (/\ FacadeConnect(t)
           /\ OnlyThread(t)
           /\ client_worker[Active(t)] # None
           /\ client_worker[Active(t)] \notin initWorkers) =>
              /\ pc'[t] = "idle"
              /\ UNCHANGED <<ctxVars, regVars, worldVars>>]_vars

\* C9, in a program whose calls are all made by one thread: connect() on a
\* context that holds a transport handle opened by init() opens no
\* transport, changes no context or registry state, and returns the
\* connection info the context has cached.
C9_ConnectAfterInitReturnsCachedInfo ==
    [][\A t \in Threads :
          (/\ FacadeConnect(t)
           /\ OnlyThread(t)
           /\ client_worker[Active(t)] # None
           /\ client_worker[Active(t)] \in initWorkers) =>
              /\ pc'[t] = "register"
              /\ conn'[t] = conn_info[Active(t)]
              /\ UNCHANGED <<ctxVars, regVars, worldVars>>]_vars

\* No call is in progress on any thread.
Quiescent == \A t \in Threads : pc[t] = "idle"

\* C10, in the states where no call is in progress: the registry holds
\* exactly the contexts that hold a live transport, one entry each, so that
\* num_connected_contexts() is the number of connected contexts.
C10_RegistryIsTheConnectedContexts ==
    Quiescent =>
        /\ RegValues(all_contexts) = Connected
        /\ num_connected_contexts = Cardinality(Connected)

\* Thread t runs a transport call in this step: the Worker constructor, the
\* handshake calls on the Worker, or close() on a Worker.
TransportCall(t) ==
    \/ ConnectOpen(t)
    \/ ConnectHandshake(t)
    \/ DisconnectClose(t) /\ closed' # closed

\* Thread t stops an embedded server in this step.
ServerStop(t) ==
    /\ DisconnectClose(t)
    /\ \E c \in Contexts : server[c] /\ ~server'[c]

\* C11: the registry lock is never held by a thread while that thread runs a
\* transport call (open, handshake, close) or stops an embedded server.
C11_LockNotHeldAcrossTransportCalls ==
    [][\A t \in Threads : (TransportCall(t) \/ ServerStop(t)) => lock # t]_vars

\* Thread t's disconnect()/shutdown() finds the registry empty in this step
\* and calls _explicitly_disable_client_mode().
ClearsClientMode(t) ==
    /\ DisconnectFinish(t)
    /\ Len(all_contexts') = 0

\* C12: when a disconnect()/shutdown() clears the client-mode flag on an
\* empty registry, no context holds a live transport; and whenever no call
\* is in progress, a non-empty registry implies that the flag is set.
C12_FlagClearedOnlyWhenNothingLive ==
    /\ [][\A t \in Threads : ClearsClientMode(t) => Connected' = {}]_vars
    /\ [](Quiescent /\ all_contexts # <<>> => client_mode)

\* ------------------------------------------------------------ ambient calls
\* Names resolved through the active context: remote is a method of the
\* facade and of the context, the others reach __getattr__.
AmbientKeys ==
    {"remote", "id", "worker", "is_initialized", "_internal_kv_initialized", "get", "put"}

\* The names __getattr__ answers with "lambda: False" when not connected.
IntrospectionKeys == {"is_initialized", "_internal_kv_initialized"}

\* _ClientContext.__getattr__ with the is_connected() branch lost: a name
\* is always looked up on the API object.
getattr_unchecked(c, key) ==
    IF key = "remote" THEN "api_remote"
    ELSE IF key = "id" THEN "client_id"
    ELSE IF key = "worker" THEN "client_worker"
    ELSE "api_attribute"

\* What RayAPIStub.remote / RayAPIStub.__getattr__(key) do on context c:
\* remote goes to self.api.remote with no look at the connection, "id" and
\* "worker" return the fields, a connected context hands the name to its API
\* object, and a context that is not connected answers the introspection
\* names with a function returning False and raises for every other name.
getattr_result(c, key) ==
    IF key = "remote" THEN "api_remote"
    ELSE IF key = "id" THEN "client_id"
    ELSE IF key = "worker" THEN "client_worker"
    ELSE IF is_connected(c) THEN "api_attribute"
    ELSE IF key \in IntrospectionKeys THEN "returns_false"
    ELSE "not_connected"

\* ray.remote(...) or ray.<key> on thread t.
AmbientCall(t, key) ==
    /\ StartCall(t)
    /\ handler' = get_context(handler, t)
    /\ ambient' = [key |-> key, result |-> getattr_result(Active(t), key)]
    /\ UNCHANGED <<ctxVars, regVars, worldVars, pc, call, cont, conn, guard, historyVars, peer>>

NextAmbient ==
    \E t \in Threads :
        \/ SetContext(t)
        \/ FacadeConnect(t)
        \/ ConnectOpen(t)
        \/ ConnectHandshake(t)
        \/ Register(t)
        \/ \E k \in {"disconnect", "shutdown"} : FacadeDisconnect(t, k)
        \/ DisconnectClose(t)
        \/ DisconnectFinish(t)
        \/ \E key \in AmbientKeys : AmbientCall(t, key)

\* The program with its ambient calls: connect, disconnect and the names
\* resolved through the active context.
SpecAmbient == Init /\ [][NextAmbient]_vars

\* Thread t makes the ambient call key on a context that is not connected.
AmbientCallNotConnected(t, key) ==
    /\ AmbientCall(t, key)
    /\ ~is_connected(Active(t))

\* C13 as claimed: on a context that is not connected every ambient call,
\* remote and attribute access alike, fails with the not-connected error
\* and changes no state, except is_initialized and _internal_kv_initialized,
\* which give false.
C13_NotConnectedCallsFail ==
    [][\A t \in Threads : \A key \in AmbientKeys :
          AmbientCallNotConnected(t, key) =>
              /\ ambient'.result =
                     IF key \in IntrospectionKeys THEN "returns_false" ELSE "not_connected"
              /\ UNCHANGED <<ctxVars, regVars, worldVars>>]_vars

\* C13 amended: on a context that is not connected, attribute access fails
\* with the not-connected error, except is_initialized and
\* _internal_kv_initialized, which give false, and except id and worker,
\* which return the context's stored fields; remote is handed to the API
\* object without a look at the connection; none of them changes the
\* contexts, the registry or the transports.
C13_NotConnectedAttributeAccessFails ==
    [][\A t \in Threads : \A key \in AmbientKeys :
          AmbientCallNotConnected(t, key) =>
              /\ ambient'.result =
                     CASE key = "remote" -> "api_remote"
                       [] key = "id" -> "client_id"
                       [] key = "worker" -> "client_worker"
                       [] key \in IntrospectionKeys -> "returns_false"
                       [] OTHER -> "not_connected"
              /\ UNCHANGED <<ctxVars, regVars, worldVars>>]_vars

\* C13 witness: an attribute access was made on a context that had been
\* connected and then disconnected, and it raised the not-connected error.
C13_Witness ==
    /\ ambient.result = "not_connected"
    /\ \E t \in Threads :
          /\ pc[t] = "idle"
          /\ client_id[Active(t)] # None
          /\ ~is_connected(Active(t))

\* ------------------------------------------------------ the version checks
\* The rest of connect's try block when the transport calls succeed and the
\* peer reports py and proto: the outcome is that of _check_versions.
ConnectHandshakePeer(t) ==
    /\ pc[t] = "c_handshake"
    /\ \E py \in PeerPythonVersions, proto \in PeerProtocolVersions,
          ignore_version \in BOOLEAN, env_override \in BOOLEAN :
          /\ HandshakeEnds(t, HandshakeResult(client_worker[Active(t)] # None, "none",
                                              py, proto, ignore_version, env_override))
          /\ peer' = [py |-> py, proto |-> proto,
                      ignore_version |-> ignore_version, env_override |-> env_override]
    /\ UNCHANGED ambient

NextVersions ==
    \E t \in Threads :
        \/ FacadeConnect(t)
        \/ ConnectOpen(t)
        \/ ConnectHandshakePeer(t)
        \/ Register(t)
        \/ FacadeDisconnect(t, "disconnect")
        \/ DisconnectClose(t)
        \/ DisconnectFinish(t)

\* Connects and disconnects on the default context, with the peer's answer
\* to each handshake on record.
SpecVersions == Init /\ [][NextVersions]_vars

\* The peer's Python version does not begin with the local major.minor.
PythonMismatch(p) == ~StartsWith(p.py, <<"3", ".", "8">>)
\* The peer's protocol version is not the local one.
ProtocolMismatch(p) == p.proto # "2021-09-02"
\* ignore_version was passed or RAY_IGNORE_VERSION_MISMATCH is set.
Override(p) == p.ignore_version \/ p.env_override

\* Thread t's handshake ends in this step.
HandshakeStep(t) ==
    /\ pc[t] = "c_handshake"
    /\ pc'[t] # "c_handshake"

\* C14: a handshake on a transport that answers fails the connect exactly
\* when the peer's Python version does not begin with the local major.minor
\* or its protocol version is not the local one, and no override is given;
\* with ignore_version or the environment override, or with no mismatch,
\* the connect goes on with the context connected.
C14_VersionChecksUnderOneOverride ==
    [][\A t \in Threads : \A c \in Contexts :
          (HandshakeStep(t) /\ c = Active(t) /\ is_connected(c)) =>
              IF (PythonMismatch(peer') \/ ProtocolMismatch(peer')) /\ ~Override(peer')
              THEN /\ pc'[t] = "idle"
                   /\ ~is_connected(c)'
              ELSE /\ pc'[t] = "register"
                   /\ is_connected(c)']_vars

\* C14 witness: a peer with another Python minor version and another
\* protocol version answered a handshake made under an override, and the
\* connect went on to its registration, the context connected.
C14_Witness ==
    /\ PythonMismatch(peer)
    /\ ProtocolMismatch(peer)
    /\ Override(peer)
    /\ \E t \in Threads :
          /\ pc[t] = "register"
          /\ call[t] = "connect"
          /\ is_connected(Active(t))

\* Thread t's connect attempt, made by connect() or init(), raises in this
\* step after its Worker was constructed.
AttemptFailsAfterOpen(t) ==
    /\ HandshakeStep(t)
    /\ pc'[t] = "idle"
    /\ attemptWorker[t] # None

\* C15: the id of a context is assigned only when a handshake completes
\* successfully, so when a connect attempt fails after its Worker was
\* constructed, the context's id is not the client id of that Worker: it is
\* what it was before the attempt.
C15_IdAssignedOnlyAtSuccessfulHandshake ==
    [][\A t \in Threads :
          AttemptFailsAfterOpen(t) => client_id'[Active(t)] # attemptWorker[t]]_vars

\* Thread t has passed connect's already-connected check and its Worker
\* constructor has returned; the rest of its try block is still to run.
AttemptOpened(t) ==
    /\ pc[t] = "c_handshake"
    /\ attemptWorker[t] # None

\* C16: no two threads are at once inside a connect attempt on the same
\* context object, each past the already-connected check and each with a
\* transport of its own opened.
C16_OneConnectAttemptPerContext ==
    \A t \in Threads : \A u \in Threads \ {t} :
        ~(AttemptOpened(t) /\ AttemptOpened(u) /\ Active(t) = Active(u))

\* The Workers that _ClientContext.disconnect() finds on the contexts it
\* runs on in thread t's teardown.
HandlesOfTargets(t) ==
    {client_worker[c] : c \in {d \in DisconnectTargets(t) : client_worker[d] # None}}

\* C17 as claimed: _ClientContext.disconnect() on a context without a
\* transport handle changes and closes nothing; on a context with one it
\* closes that handle, not closed before, clears the context's id and leaves
\* the context without a handle.
C17_DisconnectIdempotentClearsId ==
    [][\A t \in Threads : DisconnectClose(t) =>
          /\ closed' = closed \cup HandlesOfTargets(t)
          /\ \A c \in DisconnectTargets(t) :
                IF client_worker[c] = None
                THEN /\ client_worker'[c] = None
                     /\ client_id'[c] = client_id[c]
                ELSE /\ client_worker[c] \notin closed
                     /\ client_worker[c] \in closed'
                     /\ client_worker'[c] = None
                     /\ client_id'[c] = None]_vars

\* C17 amended: _ClientContext.disconnect() on a context without a
\* transport handle changes and closes nothing; on a context with one it
\* closes that handle, not closed before, and leaves the context without a
\* handle; in both cases the context keeps its id.
C17_DisconnectIdempotentKeepsId ==
    [][\A t \in Threads : DisconnectClose(t) =>
          /\ closed' = closed \cup HandlesOfTargets(t)
          /\ client_id' = client_id
          /\ \A c \in DisconnectTargets(t) :
                IF client_worker[c] = None
                THEN client_worker'[c] = None
                ELSE /\ client_worker[c] \notin closed
                     /\ client_worker[c] \in closed'
                     /\ client_worker'[c] = None]_vars

\* C17 witness: a thread is at the disconnect() of its own context for the
\* second time: the context was connected, its handle has been closed and
\* dropped, and its id is still set.
C17_Witness ==
    \E t \in Threads :
        /\ pc[t] = "d_close"
        /\ ~is_default(t)
        /\ client_worker[Active(t)] = None
        /\ client_id[Active(t)] \in closed

\* C18: disconnect() on a guard acts on the guard's target, the context
\* whose id was given to context_from_client_id, outside the with block and
\* inside it: when the target is connected the call disconnects it, and
\* the teardown it starts is never that of another context.
C18_GuardDisconnectActsOnTarget ==
    [][\A t \in Threads : \A c \in Contexts :
          (GuardDisconnect(t) /\ c = guardTarget[t].cxt) =>
              /\ is_connected(c) => pc'[t] = "d_close"
              /\ pc'[t] = "d_close" => Active(t)' = c]_vars

\* Thread t's facade shutdown() returns in this step.
ShutdownReturns(t) ==
    /\ DisconnectFinish(t)
    /\ call[t] = "shutdown"

\* C19, in a program whose calls are all made by one thread: when the
\* facade shutdown() returns, the thread's active context holds no transport
\* handle and no embedded-server handle, so that init() can be called on it
\* again.
C19_ShutdownStopsServer ==
    [][\A t \in Threads : \A c \in Contexts :
          (ShutdownReturns(t) /\ OnlyThread(t) /\ c = Active(t)) =>
              /\ client_worker'[c] = None
              /\ ~server'[c]]_vars

\* ManagedContext.id on thread t's guard: _context_to_restore.id, which
\* _ClientContext.__getattr__ answers with _client_id.
guard_id(t) == client_id[guard[t].restore]

\* C20: as long as the target context of a guard made by
\* context_from_client_id(i) keeps the id i, the guard's id property gives
\* i: before the with block, inside it and after it.
C20_GuardIdIsTargetId ==
    \A t \in Threads :
        (guard[t].has /\ client_id[guardTarget[t].cxt] = guardTarget[t].id) =>
            guard_id(t) = guardTarget[t].id

====
